---- MODULE Spec2Model ----
(***************************************************************************)
(* Model of src/src/main.rs: the PaCMAP demonstration pipeline.            *)
(*                                                                         *)
(* main downloads the feature array, reshapes it, downloads the labels,    *)
(* runs pacmap::fit_transform, builds a scatter trace and writes it to     *)
(* pacmap_visualization.html.  Every fallible call is followed by `?`, so  *)
(* an Err ends main at once; a panic (out-of-bounds column index,          *)
(* Plot::write_html's unwrap) unwinds out of main.                         *)
(*                                                                         *)
(* An optional value is a sequence of length 0 or 1.                       *)
(* An array is [shape, order, buf]: the dimensions, the memory layout      *)
(* ("C" row-major, "F" column-major) and the element buffer.               *)
(***************************************************************************)
EXTENDS Integers, Sequences, FiniteSets, TLC

\* Largest first dimension (sample count / label count) of a downloaded array.
MaxSamples == 2
\* Largest second dimension of a downloaded array.
MaxFeatures == 2
\* Largest column count of an embedding handed directly to create_scatter_plot.
MaxCols == 3

DATA_URL == "https://raw.githubusercontent.com/YingfanWang/PaCMAP/master/data/USPS.npy"
LABELS_URL == "https://raw.githubusercontent.com/YingfanWang/PaCMAP/master/data/USPS_labels.npy"
Resources == {DATA_URL, LABELS_URL}

\* Configuration::builder().embedding_dimensions(2)
EmbeddingDimensions == 2
\* Marker::new().size(2)
MarkerSize == 2

VARIABLES
    pc,         \* position in main / in the download function it is calling
    response,   \* the reqwest Response of the download in progress
    bytes,      \* the body read from the response
    x_raw,      \* `x` of line 42: the Array2<f32> as loaded
    x,          \* `x` of line 47: the (n_samples, n_features) matrix
    labels,     \* the Array1<i32> of line 50
    embedding,  \* first component of fit_transform's result
    scatter,    \* the Box<Scatter> returned by create_scatter_plot
    html,       \* the trace written to pacmap_visualization.html
    result,     \* how main ended: "running", "Ok", "Err" or "panic"
    error,      \* the error (or panic) main ended with
    trace       \* the external calls and stages executed so far, in order

vars == <<pc, response, bytes, x_raw, x, labels, embedding, scatter, html,
          result, error, trace>>

None == <<>>
Some(v) == <<v>>

-----------------------------------------------------------------------------
(* Arrays *)

RECURSIVE Product(_)
\* iter().product() over a slice of dimensions
Product(dims) == IF dims = <<>> THEN 1 ELSE Head(dims) * Product(Tail(dims))

\* Element (i, j), zero-based, of a two-dimensional array.
At(arr, i, j) ==
    IF arr.order = "C"
    THEN arr.buf[i * arr.shape[2] + j + 1]
    ELSE arr.buf[j * arr.shape[1] + i + 1]

\* The elements of a two-dimensional array in logical (row-major) order.
Elems(arr) ==
    [k \in 1..(arr.shape[1] * arr.shape[2]) |->
        At(arr, (k - 1) \div arr.shape[2], (k - 1) % arr.shape[2])]

\* to_shape as a reinterpretation of the buffer that ignores the memory layout.
ToShapeReinterpret(arr, rows, cols) ==
    IF rows * cols /= Len(arr.buf)
    THEN [ok |-> FALSE, arr |-> arr]
    ELSE [ok |-> TRUE, arr |-> [shape |-> <<rows, cols>>, order |-> "C", buf |-> arr.buf]]

\* ArrayBase::to_shape((rows, cols)) with the default row-major order: an
\* error when the element counts differ, a view of the same buffer when the
\* array is in standard layout, otherwise a copy made in logical order.
ToShape(arr, rows, cols) ==
    IF rows * cols /= Len(arr.buf)
    THEN [ok |-> FALSE, arr |-> arr]
    ELSE IF arr.order = "C"
    THEN [ok |-> TRUE, arr |-> [shape |-> <<rows, cols>>, order |-> "C", buf |-> arr.buf]]
    ELSE [ok |-> TRUE, arr |-> [shape |-> <<rows, cols>>, order |-> "C", buf |-> Elems(arr)]]

\* ArrayBase::column(j).to_vec(): panics when j is not a column index.
Column(arr, j) ==
    IF j >= arr.shape[2]
    THEN [panicked |-> TRUE, vec |-> <<>>]
    ELSE [panicked |-> FALSE, vec |-> [i \in 1..arr.shape[1] |-> At(arr, i - 1, j)]]

\* Array1::to_vec()
ToVec(arr) == arr.buf

-----------------------------------------------------------------------------
(* What a server can answer *)

Ramp(n) == [k \in 1..n |-> k]
Zeros(n) == [k \in 1..n |-> 0]
\* Element sequences of length n: position-tagged, or all equal.
SampleData(n) == {Ramp(n), Zeros(n)}

Shapes1 == {<<n>> : n \in 0..MaxSamples}
Shapes2 == {<<a, b>> : a \in 0..MaxSamples, b \in 0..MaxFeatures}
Shapes3 == {<<a, b, 1>> : a \in 0..MaxSamples, b \in 1..MaxFeatures}

Malformed ==
    [wellformed |-> FALSE, dtype |-> "", shape |-> <<>>, fortran |-> FALSE, data |-> <<>>]

Npy(dtype, shape, fortran, data) ==
    [wellformed |-> TRUE, dtype |-> dtype, shape |-> shape, fortran |-> fortran, data |-> data]

\* Bodies a response can carry: not an NPY file at all, or an NPY file of
\* either element type, of rank 1, 2 or 3, in either memory order, whose data
\* is complete or one element short.
Payloads ==
    {Malformed}
    \cup UNION {{Npy(d, s, FALSE, da) : da \in SampleData(Product(s))} :
                    d \in {"f4", "i4"}, s \in Shapes1 \cup Shapes3}
    \cup UNION {{Npy(d, s, f, da) : da \in SampleData(Product(s))} :
                    d \in {"f4", "i4"}, s \in Shapes2, f \in BOOLEAN}
    \cup {Npy(d, s, FALSE, Zeros(Product(s) - 1)) :
                    d \in {"f4", "i4"}, s \in {t \in Shapes1 \cup Shapes2 : Product(t) > 0}}

HttpStatuses == {200, 404, 500}

\* read_npy into a dynamic-dimensional array that is then flattened to the
\* requested dimensionality: no rank is rejected.
ReadNpyAnyRank(payload, dtype, ndim) ==
    LET bad(cause) == [ok |-> FALSE, cause |-> cause,
                       arr |-> [shape |-> <<>>, order |-> "C", buf |-> <<>>]]
    IN  IF ~payload.wellformed THEN bad("ParseHeader")
        ELSE IF payload.dtype /= dtype THEN bad("WrongDescriptor")
        ELSE IF Len(payload.data) /= Product(payload.shape) THEN bad("MissingData")
        ELSE [ok |-> TRUE, cause |-> "",
              arr |-> [shape |-> IF ndim = 1 THEN <<Product(payload.shape)>>
                                 ELSE <<Head(payload.shape), Product(Tail(payload.shape))>>,
                       order |-> IF payload.fortran /\ Len(payload.shape) = ndim
                                 THEN "F" ELSE "C",
                       buf |-> payload.data]]

\* Array2::<f32>::read_npy / Array1::<i32>::read_npy: the header is parsed,
\* then the data is read as the requested element type, then the array is
\* converted to the requested dimensionality.
ReadNpy(payload, dtype, ndim) ==
    LET bad(cause) == [ok |-> FALSE, cause |-> cause,
                       arr |-> [shape |-> <<>>, order |-> "C", buf |-> <<>>]]
    IN  IF ~payload.wellformed THEN bad("ParseHeader")
        ELSE IF payload.dtype /= dtype THEN bad("WrongDescriptor")
        ELSE IF Len(payload.data) /= Product(payload.shape) THEN bad("MissingData")
        ELSE IF Len(payload.shape) /= ndim THEN bad("WrongNdim")
        ELSE [ok |-> TRUE, cause |-> "",
              arr |-> [shape |-> payload.shape,
                       order |-> IF payload.fortran THEN "F" ELSE "C",
                       buf |-> payload.data]]

-----------------------------------------------------------------------------
(* Program order *)

Stages == <<"x_get", "x_bytes", "x_parse", "reshape",
            "l_get", "l_bytes", "l_parse", "reduce", "scatter", "write", "exit">>

\* main with the reduction moved before the label download.
NextStageReduceEarly(p) ==
    CASE p = "reshape" -> "reduce"
      [] p = "reduce" -> "l_get"
      [] p = "l_parse" -> "scatter"
      [] OTHER ->
            LET i == CHOOSE k \in 1..Len(Stages) : Stages[k] = p
            IN  IF i < Len(Stages) THEN Stages[i + 1] ELSE "exit"

\* The statement main reaches when the statement at p has succeeded.
NextStage(p) ==
    LET i == CHOOSE k \in 1..Len(Stages) : Stages[k] = p
    IN  IF i < Len(Stages) THEN Stages[i + 1] ELSE "exit"

GetPc(r) == IF r = DATA_URL THEN "x_get" ELSE "l_get"
BytesPc(r) == IF r = DATA_URL THEN "x_bytes" ELSE "l_bytes"
ParsePc(r) == IF r = DATA_URL THEN "x_parse" ELSE "l_parse"
\* download_and_load_array2 reads Array2<f32>, download_and_load_array1 Array1<i32>
DType(r) == IF r = DATA_URL THEN "f4" ELSE "i4"
NDim(r) == IF r = DATA_URL THEN 2 ELSE 1

Ev(op, r) == <<op, r>>
\* How often the call op on resource r has been made.
Count(op, r) == Cardinality({i \in DOMAIN trace : trace[i] = Ev(op, r)})
\* Position of the first such call in the run, 0 when there is none.
Pos(op, r) ==
    IF Count(op, r) = 0 THEN 0
    ELSE CHOOSE i \in DOMAIN trace :
            /\ trace[i] = Ev(op, r)
            /\ \A j \in 1..(i - 1) : trace[j] /= Ev(op, r)
Err(context, url, cause) == [context |-> context, url |-> url, cause |-> cause]

\* The `?` operator: main returns the error at once.
Propagate(e) ==
    /\ pc' = "exit"
    /\ result' = "Err"
    /\ error' = Some(e)

\* A panic unwinds out of main.
Panic(cause) ==
    /\ pc' = "exit"
    /\ result' = "panic"
    /\ error' = Some(Err("panic", "", cause))

-----------------------------------------------------------------------------
(* Initial state *)

Init ==
    /\ pc = "x_get"
    /\ response = None
    /\ bytes = None
    /\ x_raw = None
    /\ x = None
    /\ labels = None
    /\ embedding = None
    /\ scatter = None
    /\ html = None
    /\ result = "running"
    /\ error = None
    /\ trace = <<>>

-----------------------------------------------------------------------------
(* download_and_load_array2 / download_and_load_array1 *)

\* get wrapped in a retry: a request that could not be carried out is sent
\* once more.
GetRetry(r) ==
    /\ pc = GetPc(r)
    /\ trace' = Append(trace, Ev("get", r))
    /\ \/ /\ IF Count("get", r) = 0
             THEN UNCHANGED <<pc, result, error>>
             ELSE Propagate(Err("Failed to download from", r, "transport"))
          /\ UNCHANGED response
       \/ /\ \E s \in HttpStatuses, b \in Payloads :
                response' = Some([status |-> s, body |-> b])
          /\ pc' = NextStage(pc)
          /\ UNCHANGED <<result, error>>
    /\ UNCHANGED <<bytes, x_raw, x, labels, embedding, scatter, html>>

\* reqwest::blocking::get(url): Err when the request cannot be carried out,
\* otherwise the response, whatever its status.
Get(r) ==
    /\ pc = GetPc(r)
    /\ trace' = Append(trace, Ev("get", r))
    /\ \/ /\ Propagate(Err("Failed to download from", r, "transport"))
          /\ UNCHANGED response
       \/ /\ \E s \in HttpStatuses, b \in Payloads :
                response' = Some([status |-> s, body |-> b])
          /\ pc' = NextStage(pc)
          /\ UNCHANGED <<result, error>>
    /\ UNCHANGED <<bytes, x_raw, x, labels, embedding, scatter, html>>

\* response.bytes(): the whole body, or Err when reading it fails.  The
\* response stays in the state until the function returns.
Bytes(r) ==
    /\ pc = BytesPc(r)
    /\ response /= None
    /\ trace' = Append(trace, Ev("bytes", r))
    /\ \/ /\ Propagate(Err("Failed to read bytes from", r, "body"))
          /\ response' = None
          /\ UNCHANGED bytes
       \/ /\ bytes' = Some(response[1].body)
          /\ pc' = NextStage(pc)
          /\ UNCHANGED <<response, result, error>>
    /\ UNCHANGED <<x_raw, x, labels, embedding, scatter, html>>

\* read_npy(Cursor::new(&bytes[..])) and the return to main.
Parse(r) ==
    /\ pc = ParsePc(r)
    /\ bytes /= None
    /\ trace' = Append(trace, Ev("parse", r))
    /\ response' = None
    /\ bytes' = None
    /\ LET res == ReadNpy(bytes[1], DType(r), NDim(r))
       IN  IF res.ok
           THEN /\ IF r = DATA_URL
                   THEN x_raw' = Some(res.arr) /\ UNCHANGED labels
                   ELSE labels' = Some(res.arr) /\ UNCHANGED x_raw
                /\ pc' = NextStage(pc)
                /\ UNCHANGED <<result, error>>
           ELSE /\ Propagate(Err("Failed to parse NPY data from", r, res.cause))
                /\ UNCHANGED <<x_raw, labels>>
    /\ UNCHANGED <<x, embedding, scatter, html>>

-----------------------------------------------------------------------------
(* main *)

\* Lines 45-47: flatten to (n_samples, n_features).
Reshape ==
    /\ pc = "reshape"
    /\ x_raw /= None
    /\ trace' = Append(trace, Ev("reshape", ""))
    /\ LET n_samples == x_raw[1].shape[1]
           n_features == Product(Tail(x_raw[1].shape))
           res == ToShape(x_raw[1], n_samples, n_features)
       IN  IF res.ok
           THEN /\ x' = Some(res.arr)
                /\ pc' = NextStage(pc)
                /\ UNCHANGED <<result, error>>
           ELSE /\ Propagate(Err("", "", "IncompatibleShape"))
                /\ UNCHANGED x
    /\ UNCHANGED <<response, bytes, x_raw, labels, embedding, scatter, html>>

\* What pacmap::fit_transform can return for a matrix and a number of
\* embedding dimensions: an error (the only outcome taken for a matrix
\* without elements), or one row of coordinates per sample.
FitTransform(matrix, dims) ==
    {[ok |-> FALSE, arr |-> matrix]}
    \cup {[ok |-> TRUE,
           arr |-> [shape |-> <<matrix.shape[1], dims>>, order |-> "C", buf |-> d]] :
                d \in IF Len(matrix.buf) = 0 THEN {}
                      ELSE SampleData(matrix.shape[1] * dims)}

\* Lines 53-65: configure and run PaCMAP.
Reduce ==
    /\ pc = "reduce"
    /\ x /= None
    /\ trace' = Append(trace, Ev("fit_transform", ""))
    /\ \E res \in FitTransform(x[1], EmbeddingDimensions) :
          IF res.ok
          THEN /\ embedding' = Some(res.arr)
               /\ pc' = NextStage(pc)
               /\ UNCHANGED <<result, error>>
          ELSE /\ Propagate(Err("", "", "pacmap"))
               /\ UNCHANGED embedding
    /\ UNCHANGED <<response, bytes, x_raw, x, labels, scatter, html>>

\* create_scatter_plot reading column 0 for both coordinates.
create_scatter_plot_SameColumn(emb, lab) ==
    LET cx == Column(emb, 0)
        cy == Column(emb, 1)
    IN  IF cx.panicked \/ cy.panicked
        THEN [panicked |-> TRUE, x |-> <<>>, y |-> <<>>, color |-> <<>>,
              mode |-> "", show_scale |-> FALSE, size |-> 0]
        ELSE [panicked |-> FALSE, x |-> cx.vec, y |-> cx.vec, color |-> ToVec(lab),
              mode |-> "markers", show_scale |-> TRUE, size |-> MarkerSize]

\* create_scatter_plot(embedding, labels), lines 93-109.
create_scatter_plot(emb, lab) ==
    LET cx == Column(emb, 0)
        cy == Column(emb, 1)
    IN  IF cx.panicked \/ cy.panicked
        THEN [panicked |-> TRUE, x |-> <<>>, y |-> <<>>, color |-> <<>>,
              mode |-> "", show_scale |-> FALSE, size |-> 0]
        ELSE [panicked |-> FALSE, x |-> cx.vec, y |-> cy.vec, color |-> ToVec(lab),
              mode |-> "markers", show_scale |-> TRUE, size |-> MarkerSize]

\* Line 68.
CreateScatter ==
    /\ pc = "scatter"
    /\ embedding /= None
    /\ labels /= None
    /\ trace' = Append(trace, Ev("create_scatter_plot", ""))
    /\ LET s == create_scatter_plot(embedding[1], labels[1])
       IN  IF s.panicked
           THEN /\ Panic("index out of bounds")
                /\ UNCHANGED scatter
           ELSE /\ scatter' = Some(s)
                /\ pc' = NextStage(pc)
                /\ UNCHANGED <<result, error>>
    /\ UNCHANGED <<response, bytes, x_raw, x, labels, embedding, html>>

\* Lines 70-82: Plot::write_html returns nothing and panics when the file
\* cannot be created or written; after it main logs "saved" and returns Ok.
WriteHtml ==
    /\ pc = "write"
    /\ scatter /= None
    /\ \/ /\ html' = scatter
          /\ trace' = trace \o <<Ev("write_html", ""), Ev("saved", "")>>
          /\ pc' = NextStage(pc)
          /\ result' = "Ok"
          /\ UNCHANGED error
       \/ /\ trace' = Append(trace, Ev("write_html", ""))
          /\ Panic("write_html")
          /\ UNCHANGED html
    /\ UNCHANGED <<response, bytes, x_raw, x, labels, embedding, scatter>>

Next ==
    \/ \E r \in Resources : Get(r)
    \/ \E r \in Resources : Bytes(r)
    \/ \E r \in Resources : Parse(r)
    \/ Reshape
    \/ Reduce
    \/ CreateScatter
    \/ WriteHtml

Spec == Init /\ [][Next]_vars

-----------------------------------------------------------------------------
(* create_scatter_plot on its own: any embedding, any label vector *)

Embeddings ==
    UNION {{[shape |-> <<n, c>>, order |-> o, buf |-> d] : d \in SampleData(n * c)} :
                n \in 0..MaxSamples, c \in 0..MaxCols, o \in {"C", "F"}}

LabelVectors ==
    UNION {{[shape |-> <<n>>, order |-> "C", buf |-> d] : d \in SampleData(n)} :
                n \in 0..MaxSamples}

InitScatter ==
    /\ pc = "scatter"
    /\ response = None
    /\ bytes = None
    /\ x_raw = None
    /\ x = None
    /\ labels \in {Some(l) : l \in LabelVectors}
    /\ embedding \in {Some(e) : e \in Embeddings}
    /\ scatter = None
    /\ html = None
    /\ result = "running"
    /\ error = None
    /\ trace = <<>>

NextScatter == CreateScatter

SpecScatter == InitScatter /\ [][NextScatter]_vars

-----------------------------------------------------------------------------
(* Properties *)

Called(op) == Count(op, "") > 0
Aborted == pc = "exit" /\ result /= "Ok"

\* C1: when the label vector's length differs from the feature matrix's row
\* count, fit_transform is never invoked and main ends with a shape-mismatch
\* error.
C1_MismatchAbortsBeforeReduce ==
    (x /= None /\ labels /= None /\ labels[1].shape[1] /= x[1].shape[1]) =>
        /\ ~Called("fit_transform")
        /\ pc = "exit" => (result = "Err" /\ error[1].cause = "ShapeMismatch")

\* C2: create_scatter_plot on an embedding whose column count is not 2
\* returns a dimension-mismatch error and no scatter series, without
\* panicking and without using a subset of the columns.
C2_NonTwoColumnsIsError ==
    (Called("create_scatter_plot") /\ embedding[1].shape[2] /= 2) =>
        /\ result = "Err"
        /\ error[1].cause = "DimensionMismatch"
        /\ scatter = None

\* C3: create_scatter_plot on an (n, 2) embedding and n labels succeeds with
\* x, y and the colour array of length n, x[i] and y[i] the two coordinates
\* of sample i and the colour at i the label of sample i.
C3_ScatterFromTwoColumns ==
    (/\ Called("create_scatter_plot")
     /\ embedding[1].shape[2] = 2
     /\ labels[1].shape[1] = embedding[1].shape[1]) =>
        /\ result = "running"
        /\ scatter /= None
        /\ LET n == embedding[1].shape[1]
               s == scatter[1]
           IN  /\ Len(s.x) = n
               /\ Len(s.y) = n
               /\ Len(s.color) = n
               /\ \A i \in 1..n :
                    /\ s.x[i] = At(embedding[1], i - 1, 0)
                    /\ s.y[i] = At(embedding[1], i - 1, 1)
                    /\ s.color[i] = labels[1].buf[i]

C3_Witness ==
    /\ Called("create_scatter_plot")
    /\ scatter /= None
    /\ embedding[1].shape = <<2, 2>>
    /\ embedding[1].buf = Ramp(4)
    /\ labels[1].buf = Ramp(2)

\* C4: once the reshape of a loaded array of shape (a, b, ...) has run it has
\* not failed, the matrix has shape (a, b*...) and its row-major element
\* sequence is that of the loaded array.
C4_ReshapePreservesElements ==
    Called("reshape") =>
        /\ x /= None
        /\ x[1].shape = <<x_raw[1].shape[1], Product(Tail(x_raw[1].shape))>>
        /\ x[1].shape[1] * x[1].shape[2] = Len(x_raw[1].buf)
        /\ Elems(x[1]) = Elems(x_raw[1])

C4_Witness ==
    /\ Called("reshape")
    /\ x /= None
    /\ x_raw[1].shape = <<2, 2>>
    /\ x_raw[1].order = "F"
    /\ x_raw[1].buf = Ramp(4)

\* C5: every scatter series built, and every one written out, has x, y and
\* the colour array of one length.
C5_ScatterLengthsAgree ==
    \A s \in {scatter, html} :
        s /= None => Len(s[1].x) = Len(s[1].y) /\ Len(s[1].y) = Len(s[1].color)

\* C6: a response with a non-success status makes the download fail at the
\* retrieval step with the download error; its body is never read for the
\* NPY parser.
C6_NonSuccessIsTransferError ==
    (response /= None /\ response[1].status \notin 200..299) =>
        /\ result = "Err"
        /\ error[1].context = "Failed to download from"
        /\ bytes = None

\* C7: when a stage has failed, main has ended with Err, nothing has been
\* written or reported as saved; and main ends with Ok only when every stage,
\* the HTML write included, has run and succeeded.
C7_FailFast ==
    /\ error /= None =>
        /\ pc = "exit"
        /\ result = "Err"
        /\ html = None
        /\ ~Called("saved")
    /\ result = "Ok" =>
        /\ error = None
        /\ html /= None
        /\ \A r \in Resources : Count("parse", r) = 1
        /\ Called("reshape") /\ Called("fit_transform")
        /\ Called("create_scatter_plot") /\ Called("write_html")

\* C8: each of the two resources is requested at most once in a run.
C8_SingleAttempt ==
    \A r \in Resources : Count("get", r) <= 1

C8_Witness ==
    /\ Aborted
    /\ error[1].url = LABELS_URL
    /\ \A r \in Resources : Count("get", r) = 1

\* C9: parsing a well-formed payload whose rank is not the expected one ends
\* main with the parse error and stores no array, and every array held is of
\* the expected rank.
C9_RankValidated ==
    /\ [](/\ x_raw /= None => Len(x_raw[1].shape) = 2
          /\ x /= None => Len(x[1].shape) = 2
          /\ labels /= None => Len(labels[1].shape) = 1)
    /\ [][\A r \in Resources :
            (/\ pc = ParsePc(r)
             /\ bytes /= None
             /\ bytes[1].wellformed
             /\ Len(bytes[1].shape) /= NDim(r)) =>
                /\ result' = "Err"
                /\ error'[1].context = "Failed to parse NPY data from"
                /\ x_raw' = x_raw
                /\ labels' = labels]_vars

C9_Witness ==
    /\ Aborted
    /\ error[1].cause = "WrongNdim"
    /\ error[1].url = DATA_URL
    /\ x_raw = None

\* C10: fit_transform runs only after the features were parsed and reshaped
\* and the labels parsed, create_scatter_plot only after fit_transform,
\* write_html only after create_scatter_plot, each at most once, and no
\* download is in progress during another stage.
C10_StageOrder ==
    /\ \A op \in {"reshape", "fit_transform", "create_scatter_plot", "write_html"} :
            Count(op, "") <= 1
    /\ Called("fit_transform") =>
        /\ 0 < Pos("parse", DATA_URL)
        /\ Pos("parse", DATA_URL) < Pos("reshape", "")
        /\ Pos("reshape", "") < Pos("fit_transform", "")
        /\ 0 < Pos("parse", LABELS_URL)
        /\ Pos("parse", LABELS_URL) < Pos("fit_transform", "")
        /\ x /= None /\ labels /= None
    /\ Called("create_scatter_plot") =>
        /\ 0 < Pos("fit_transform", "")
        /\ Pos("fit_transform", "") < Pos("create_scatter_plot", "")
    /\ Called("write_html") =>
        /\ 0 < Pos("create_scatter_plot", "")
        /\ Pos("create_scatter_plot", "") < Pos("write_html", "")
    /\ (response /= None \/ bytes /= None) =>
            pc \in {"x_bytes", "x_parse", "l_bytes", "l_parse"}

C10_Witness ==
    /\ result = "Ok"
    /\ Called("write_html")
    /\ html /= None

====
